---- MODULE Spec2Model ----
(***************************************************************************)
(* Model of the ultrasonic multipath flow meter core (flowmeter.c):        *)
(* calculate_path_velocity, calculate_flow_rate, flowmeter_process and     *)
(* flowmeter_result_free, over a heap with malloc/free and over a binary   *)
(* floating-point arithmetic with round-to-nearest-even, signed zeros,     *)
(* subnormals, infinities and NaN (the C type double, scaled down).        *)
(***************************************************************************)
EXTENDS Integers, Naturals, Sequences, FiniteSets, TLC

(***************************************************************************)
(* The floating-point format.  A finite double is sign * n * 2^(-FracBits) *)
(* with n < 2^PrecBits, or n = m * 2^e with 2^(PrecBits-1) <= m <          *)
(* 2^PrecBits and 1 <= e <= MaxExp.  n < 2^(PrecBits-1) are the subnormals.*)
(***************************************************************************)
PrecBits == 3
FracBits == 3
MaxExp == 4

RECURSIVE Pow2(_)
Pow2(k) == IF k = 0 THEN 1 ELSE 2 * Pow2(k - 1)

Unit == Pow2(FracBits)
MantLimit == Pow2(PrecBits)
MaxMag == (MantLimit - 1) * Pow2(MaxExp)

Fin(s, n) == [c |-> "fin", s |-> s, n |-> n]
Inf(s) == [c |-> "inf", s |-> s, n |-> 0]
NaN == [c |-> "nan", s |-> 0, n |-> 0]

IsNaN(x) == x.c = "nan"
IsInf(x) == x.c = "inf"
IsFin(x) == x.c = "fin"
IsZero(x) == x.c = "fin" /\ x.n = 0
Xor(a, b) == IF a = b THEN 0 ELSE 1

\* The exponent e of the binade that holds a/b units: the least e with
\* a/b < 2^PrecBits * 2^e (MaxExp + 1 when there is none: overflow).
ExpOf(a, b) ==
  IF \E e \in 0..MaxExp : a < b * MantLimit * Pow2(e)
  THEN CHOOSE e \in 0..MaxExp :
         /\ a < b * MantLimit * Pow2(e)
         /\ \A f \in 0..MaxExp : a < b * MantLimit * Pow2(f) => e <= f
  ELSE MaxExp + 1

\* Round the exact value sign * (a/b) units (a >= 0, b > 0) to the format:
\* round to nearest, ties to even, overflow to infinity.
Round(s, a, b) ==
  LET e == ExpOf(a, b)
  IN IF e > MaxExp THEN Inf(s)
     ELSE LET d == b * Pow2(e)
              m == a \div d
              r == a - m * d
              up == (2 * r > d) \/ (2 * r = d /\ m % 2 = 1)
              m2 == IF up THEN m + 1 ELSE m
          IN IF m2 * Pow2(e) > MaxMag THEN Inf(s) ELSE Fin(s, m2 * Pow2(e))

\* A literal of the program: the double nearest to the rational num/den.
Lit(num, den) ==
  IF num < 0 THEN Round(1, (0 - num) * Unit, den) ELSE Round(0, num * Unit, den)

SignedN(x) == IF x.s = 1 THEN 0 - x.n ELSE x.n

FNeg(x) == IF IsNaN(x) THEN NaN ELSE [x EXCEPT !.s = 1 - x.s]

FAdd(x, y) ==
  IF IsNaN(x) \/ IsNaN(y) THEN NaN
  ELSE IF IsInf(x) /\ IsInf(y) THEN (IF x.s = y.s THEN x ELSE NaN)
  ELSE IF IsInf(x) THEN x
  ELSE IF IsInf(y) THEN y
  ELSE LET t == SignedN(x) + SignedN(y)
       IN IF t = 0 THEN Fin(IF x.s = 1 /\ y.s = 1 THEN 1 ELSE 0, 0)
          ELSE IF t < 0 THEN Round(1, 0 - t, 1)
          ELSE Round(0, t, 1)

FSub(x, y) == FAdd(x, FNeg(y))

FMul(x, y) ==
  IF IsNaN(x) \/ IsNaN(y) THEN NaN
  ELSE IF (IsInf(x) /\ IsZero(y)) \/ (IsZero(x) /\ IsInf(y)) THEN NaN
  ELSE IF IsInf(x) \/ IsInf(y) THEN Inf(Xor(x.s, y.s))
  ELSE Round(Xor(x.s, y.s), x.n * y.n, Unit)

FDiv(x, y) ==
  IF IsNaN(x) \/ IsNaN(y) THEN NaN
  ELSE IF IsInf(x) /\ IsInf(y) THEN NaN
  ELSE IF IsZero(x) /\ IsZero(y) THEN NaN
  ELSE IF IsInf(x) \/ IsZero(y) THEN Inf(Xor(x.s, y.s))
  ELSE IF IsInf(y) THEN Fin(Xor(x.s, y.s), 0)
  ELSE Round(Xor(x.s, y.s), x.n * Unit, y.n)

\* x == y, x <= y of C: false when either side is NaN; -0.0 == 0.0.
FEq(x, y) ==
  /\ ~IsNaN(x) /\ ~IsNaN(y)
  /\ \/ IsFin(x) /\ IsFin(y) /\ SignedN(x) = SignedN(y)
     \/ IsInf(x) /\ IsInf(y) /\ x.s = y.s

FLe(x, y) ==
  /\ ~IsNaN(x) /\ ~IsNaN(y)
  /\ \/ FEq(x, y)
     \/ IsInf(x) /\ x.s = 1
     \/ IsInf(y) /\ y.s = 0
     \/ IsFin(x) /\ IsFin(y) /\ SignedN(x) < SignedN(y)

Zero == Fin(0, 0)
Two == Lit(2, 1)
\* M_PI of <math.h>, rounded to the format.
M_PI == Lit(355, 113)

\* sin(k/8) in millionths, k = 0..56 (the arguments the model passes to sin).
SinMicro ==
  << 0, 124675, 247404, 366273, 479426, 585097, 681639, 767544, 841471,
     902268, 948985, 980893, 997495, 998531, 983986, 954086, 909297, 850320,
     778073, 693685, 598472, 493920, 381661, 263446, 141120, 16592, -108195,
     -231294, -350783, -464799, -571561, -669405, -756802, -832391, -894989,
     -943622, -977530, -996184, -999293, -986808, -958924, -916077, -858934,
     -788389, -705540, -611682, -508279, -396944, -279415, -157526, -33179,
     91686, 215120, 335197, 450044, 557868, 656987 >>

\* sin of <math.h>: the double nearest to the sine; sin(+-0) = +-0, odd,
\* NaN for an infinite or NaN argument.
Sin(x) ==
  IF ~IsFin(x) THEN NaN
  ELSE IF x.n = 0 THEN x
  ELSE LET v == SinMicro[((x.n * 8) \div Unit) + 1]
       IN IF v < 0 THEN Round(1 - x.s, (0 - v) * Unit, 1000000)
          ELSE Round(x.s, v * Unit, 1000000)

(***************************************************************************)
(* References (C pointers to caller-owned objects): absent or present.     *)
(***************************************************************************)
NullRef == [null |-> TRUE]
Ref(x) == [null |-> FALSE, at |-> x]

AcousticPath(a, l, w) == [position |-> Zero, angle |-> a, length |-> l, weight |-> w]
PathMeasurement(u, d) == [t_upstream |-> u, t_downstream |-> d]

(***************************************************************************)
(* calculate_path_velocity                                                 *)
(***************************************************************************)
\* Faulty variant: the transit times are tested with < instead of <=.
TransitGuard_Strict(t_up, t_down) ==
  (FLe(t_up, Zero) /\ ~FEq(t_up, Zero)) \/ (FLe(t_down, Zero) /\ ~FEq(t_down, Zero))

TransitGuard(t_up, t_down) == FLe(t_up, Zero) \/ FLe(t_down, Zero)

\* Faulty variant: the test of the sine is missing.
SinGuard_Missing(sin_theta) == FALSE

SinGuard(sin_theta) == FEq(sin_theta, Zero)

VelocityFormula(length, sin_theta, t_up, t_down) ==
  FMul(FDiv(length, FMul(Two, sin_theta)),
       FDiv(FSub(t_up, t_down), FMul(t_up, t_down)))

calculate_path_velocity(path, measurement) ==
  IF path.null \/ measurement.null THEN Zero
  ELSE LET t_up == measurement.at.t_upstream
           t_down == measurement.at.t_downstream
       IN IF TransitGuard(t_up, t_down) THEN Zero
          ELSE LET sin_theta == Sin(path.at.angle)
               IN IF SinGuard(sin_theta) THEN Zero
                  ELSE VelocityFormula(path.at.length, sin_theta, t_up, t_down)

(***************************************************************************)
(* The heap: malloc and free over NumAddrs blocks; address 0 is NULL.      *)
(***************************************************************************)
NumAddrs == 4
NULL == 0
Addrs == 1..NumAddrs
\* The value of a pointer field that was never assigned.
Indeterminate == -1
\* The value of a double that was never assigned.
Uninit == [c |-> "uninit", s |-> 0, n |-> 0]

FreeBlock == [kind |-> "free"]
FlowResultBlock(pv, vf) ==
  [kind |-> "FlowResult", path_velocities |-> pv, volumetric_flow |-> vf]
DoublesBlock(d) == [kind |-> "doubles", data |-> d]

FreeAddrs(h) == {a \in Addrs : h[a].kind = "free"}

\* Faulty variant: the allocator may hand out a block that is in use.
malloc_Reuses(h) == {NULL} \cup Addrs

\* malloc: NULL (out of memory), or a block that is not in use.
malloc(h) == {NULL} \cup FreeAddrs(h)

\* free(p): the block is returned to the allocator.
free(h, p) == [h EXCEPT ![p] = FreeBlock]

(***************************************************************************)
(* The state.                                                              *)
(***************************************************************************)
VARIABLES
  pc,            \* the position of the program
  config,        \* the caller's FlowMeterConfig reference
  plan,          \* the measurement arrays the caller will pass, in order
  measurements,  \* flowmeter_process: the measurements argument
  heap,          \* address -> block
  held,          \* the results the caller owns: [ptr, meas] records
  result,        \* flowmeter_process: FlowResult *result
  i,             \* calculate_flow_rate: the loop index
  weighted_velocity_sum, \* calculate_flow_rate: the accumulator
  ret,           \* the value flowmeter_process returned
  free_arg,      \* flowmeter_result_free: the argument
  allocated,     \* the blocks malloc returned during the current call
  reads,         \* the indices i at which paths[i], measurements[i] were read
  oob,           \* a read beyond the end of a supplied array has happened
  arg_path, arg_meas, velocity, velocity_swapped
                 \* one calculate_path_velocity call and its mirror image

frame == <<measurements, result, i, weighted_velocity_sum, ret, allocated, reads, oob>>
procVars == <<config, plan, heap, held, free_arg, frame>>
velVars == <<arg_path, arg_meas, velocity, velocity_swapped>>
vars == <<pc, procVars, velVars>>

(***************************************************************************)
(* The inputs.                                                             *)
(***************************************************************************)
MaxPaths == 2

RECURSIVE SeqsOf(_, _)
SeqsOf(S, n) ==
  IF n = 0 THEN {<< >>}
  ELSE {Append(q, x) : q \in SeqsOf(S, n - 1), x \in S}

FlowMeterConfig(d, n, p) == [pipe_diameter |-> d, num_paths |-> n, paths |-> p]

Half == Lit(1, 2)
One == Lit(1, 1)

Eighth == Lit(1, 8)
DblMax == Fin(0, MaxMag)

\* Paths: sin(1.5) rounds to 1, sin(0) = 0 (degenerate), sin(0.5) to 0.5.
PathSet ==
  { AcousticPath(Lit(3, 2), Two, Lit(5, 4)),
    AcousticPath(Zero, One, Half),
    AcousticPath(Half, One, Lit(-1, 2)) }
\* Transit-time pairs: forward and reverse flow, a non-positive time, and a
\* pair so small that its product underflows.
MeasSet ==
  { PathMeasurement(Two, One), PathMeasurement(One, Two),
    PathMeasurement(Zero, One), PathMeasurement(Eighth, Eighth) }
Diameters == { Two, Lit(3, 2) }

\* The configurations of a caller that keeps the documented layout: paths,
\* when present, holds num_paths elements.
Configs(D, P) ==
  {NullRef}
    \cup {Ref(FlowMeterConfig(d, n, NullRef)) : d \in D, n \in 0..MaxPaths}
    \cup UNION {{Ref(FlowMeterConfig(d, n, Ref(ps))) : d \in D, ps \in SeqsOf(P, n)}
                : n \in 0..MaxPaths}

NumPathsOf(c) == IF c.null THEN 0 ELSE c.at.num_paths

\* The measurement arrays such a caller passes: one element per path.
MeasArgs(c, M) == {NullRef} \cup {Ref(ms) : ms \in SeqsOf(M, NumPathsOf(c))}

(***************************************************************************)
(* The caller (main.c): flowmeter_process, then flowmeter_result_free.     *)
(***************************************************************************)
NoFrame ==
  /\ measurements = NullRef
  /\ result = NULL
  /\ i = 0
  /\ weighted_velocity_sum = Uninit
  /\ ret = NULL
  /\ allocated = {}
  /\ reads = {}
  /\ oob = FALSE

InitProc ==
  /\ pc = "idle"
  /\ heap = [a \in Addrs |-> FreeBlock]
  /\ held = {}
  /\ free_arg = NULL
  /\ NoFrame

InitVelIdle ==
  /\ arg_path = NullRef
  /\ arg_meas = NullRef
  /\ velocity = Uninit
  /\ velocity_swapped = Uninit

\* Two calls on one configuration, the results released in any order.
LifePaths == { AcousticPath(Lit(3, 2), Two, Lit(5, 4)), AcousticPath(Zero, One, Half) }
LifeMeas == { PathMeasurement(Two, One), PathMeasurement(One, Two) }

Init ==
  /\ InitProc
  /\ InitVelIdle
  /\ config \in Configs({Two}, LifePaths)
  /\ \E m1 \in MeasArgs(config, LifeMeas), m2 \in MeasArgs(config, LifeMeas) :
       plan = <<m1, m2>>

\* result = flowmeter_process(config, measurements)      (main.c:204)
CallProcess ==
  /\ pc = "idle"
  /\ plan # << >>
  /\ measurements' = Head(plan)
  /\ plan' = Tail(plan)
  /\ pc' = "process"
  /\ UNCHANGED <<config, heap, held, free_arg, result, i, weighted_velocity_sum,
                 ret, allocated, reads, oob, velVars>>

(***************************************************************************)
(* flowmeter_process                                                       *)
(***************************************************************************)
ProcessCheckArgs ==
  /\ pc = "process"
  /\ IF config.null \/ measurements.null
     THEN /\ ret' = NULL
          /\ pc' = "returned"
     ELSE /\ ret' = ret
          /\ pc' = "process_malloc"
  /\ UNCHANGED <<config, plan, measurements, heap, held, free_arg, result, i,
                 weighted_velocity_sum, allocated, reads, oob, velVars>>

ProcessMalloc ==
  /\ pc = "process_malloc"
  /\ \E p \in malloc(heap) :
       /\ result' = p
       /\ IF p = NULL
          THEN /\ ret' = NULL
               /\ pc' = "returned"
               /\ UNCHANGED <<heap, allocated>>
          ELSE /\ heap' = [heap EXCEPT ![p] = FlowResultBlock(Indeterminate, Uninit)]
               /\ allocated' = allocated \cup {p}
               /\ ret' = ret
               /\ pc' = "flow_rate"
  /\ UNCHANGED <<config, plan, measurements, held, free_arg, i,
                 weighted_velocity_sum, reads, oob, velVars>>

(***************************************************************************)
(* calculate_flow_rate(config, measurements, result)                       *)
(***************************************************************************)
\* Faulty variant: the num_paths == 0 test is missing.
BadConfig_NoCountTest(c) == c.at.paths.null

\* if (config->num_paths == 0 || !config->paths) return -1;
BadConfig(c) == c.at.num_paths = 0 \/ c.at.paths.null

FlowRateCheckArgs ==
  /\ pc = "flow_rate"
  /\ IF config.null \/ measurements.null \/ result = NULL
     THEN pc' = "process_failed"
     ELSE IF BadConfig(config)
     THEN pc' = "process_failed"
     ELSE pc' = "flow_rate_malloc"
  /\ UNCHANGED <<procVars, velVars>>

FlowRateMalloc ==
  /\ pc = "flow_rate_malloc"
  /\ \E p \in malloc(heap) :
       IF p = NULL
       THEN /\ heap' = [heap EXCEPT ![result].path_velocities = NULL]
            /\ pc' = "process_failed"
            /\ UNCHANGED <<allocated, i, weighted_velocity_sum>>
       ELSE /\ heap' = [heap EXCEPT
                          ![result].path_velocities = p,
                          ![p] = DoublesBlock([k \in 1..config.at.num_paths |-> Uninit])]
            /\ allocated' = allocated \cup {p}
            /\ weighted_velocity_sum' = Zero
            /\ i' = 0
            /\ pc' = "flow_rate_loop"
  /\ UNCHANGED <<config, plan, measurements, held, free_arg, result, ret,
                 reads, oob, velVars>>

\* What reading element k of a caller's array yields: the element, or, beyond
\* the end of the array, undefined behaviour: any value of the type, or a trap.
ReadElem(arr, k, Garbage) ==
  IF k < Len(arr.at)
  THEN {[trap |-> FALSE, val |-> arr.at[k + 1]]}
  ELSE {[trap |-> FALSE, val |-> g] : g \in Garbage} \cup {[trap |-> TRUE]}

\* Faulty variant: the weight is left out of the sum.
WeightedTerm_Unweighted(path, v) == v

\* Faulty variant: the weight is added to the velocity instead of multiplying it.
WeightedTerm_Added(path, v) == FAdd(path.weight, v)

WeightedTerm(path, v) == FMul(path.weight, v)

\* Faulty variant: the loop runs one index too far.
LoopCond_Inclusive(k, num_paths) == k <= num_paths

\* for (uint32_t i = 0; i < config->num_paths; i++)
LoopCond(k, num_paths) == k < num_paths

FlowRateLoop ==
  /\ pc = "flow_rate_loop"
  /\ LoopCond(i, config.at.num_paths)
  /\ \E rp \in ReadElem(config.at.paths, i, PathSet),
        rm \in ReadElem(measurements, i, MeasSet) :
       /\ reads' = reads \cup {i}
       /\ oob' = (oob \/ i >= Len(config.at.paths.at) \/ i >= Len(measurements.at))
       /\ IF rp.trap \/ rm.trap
          THEN /\ pc' = "trapped"
               /\ UNCHANGED <<heap, weighted_velocity_sum, i>>
          ELSE LET v == calculate_path_velocity(Ref(rp.val), Ref(rm.val))
                   pv == heap[result].path_velocities
               IN /\ heap' = [heap EXCEPT ![pv].data[i + 1] = v]
                  /\ weighted_velocity_sum' =
                       FAdd(weighted_velocity_sum, WeightedTerm(rp.val, v))
                  /\ i' = i + 1
                  /\ pc' = pc
  /\ UNCHANGED <<config, plan, measurements, held, free_arg, result, ret,
                 allocated, velVars>>

Area(pipe_diameter) ==
  LET radius == FDiv(pipe_diameter, Two)
  IN FMul(FMul(M_PI, radius), radius)

FlowRateFinish ==
  /\ pc = "flow_rate_loop"
  /\ ~LoopCond(i, config.at.num_paths)
  /\ heap' = [heap EXCEPT ![result].volumetric_flow =
                FMul(Area(config.at.pipe_diameter), weighted_velocity_sum)]
  /\ pc' = "process_return"
  /\ UNCHANGED <<config, plan, measurements, held, free_arg, result, i,
                 weighted_velocity_sum, ret, allocated, reads, oob, velVars>>

\* Faulty variant: the aggregate is not freed on the error path.
ProcessFailed_NoFree ==
  /\ pc = "process_failed"
  /\ ret' = NULL
  /\ pc' = "returned"
  /\ UNCHANGED <<config, plan, measurements, heap, held, free_arg, result, i,
                 weighted_velocity_sum, allocated, reads, oob, velVars>>

\* calculate_flow_rate returned -1: free(result); return NULL.
ProcessFailed ==
  /\ pc = "process_failed"
  /\ heap' = free(heap, result)
  /\ ret' = NULL
  /\ pc' = "returned"
  /\ UNCHANGED <<config, plan, measurements, held, free_arg, result, i,
                 weighted_velocity_sum, allocated, reads, oob, velVars>>

\* calculate_flow_rate returned 0: return result.
ProcessReturn ==
  /\ pc = "process_return"
  /\ ret' = result
  /\ pc' = "returned"
  /\ UNCHANGED <<config, plan, measurements, heap, held, free_arg, result, i,
                 weighted_velocity_sum, allocated, reads, oob, velVars>>

\* The caller takes the returned value: it owns a result that is not NULL
\* (main.c:205-212).
Receive ==
  /\ pc = "returned"
  /\ held' = IF ret = NULL THEN held
             ELSE held \cup {[ptr |-> ret, meas |-> measurements]}
  /\ pc' = "idle"
  /\ measurements' = NullRef
  /\ result' = NULL
  /\ i' = 0
  /\ weighted_velocity_sum' = Uninit
  /\ ret' = NULL
  /\ allocated' = {}
  /\ reads' = {}
  /\ oob' = FALSE
  /\ UNCHANGED <<config, plan, heap, free_arg, velVars>>

(***************************************************************************)
(* flowmeter_result_free                                                   *)
(***************************************************************************)
\* Faulty variant: the velocity storage is not freed.
flowmeter_result_free_KeepsVelocities(h, p) ==
  IF p # NULL THEN free(h, p) ELSE h

flowmeter_result_free(h, p) ==
  IF p # NULL
  THEN IF h[p].path_velocities # NULL
       THEN free(free(h, h[p].path_velocities), p)
       ELSE free(h, p)
  ELSE h

\* The caller releases a result it owns, once (main.c:215), or passes NULL.
CallResultFree ==
  /\ pc = "idle"
  /\ \E p \in {r.ptr : r \in held} \cup {NULL} :
       /\ free_arg' = p
       /\ held' = {r \in held : r.ptr # p}
  /\ pc' = "result_free"
  /\ UNCHANGED <<config, plan, heap, frame, velVars>>

ResultFree ==
  /\ pc = "result_free"
  /\ heap' = flowmeter_result_free(heap, free_arg)
  /\ free_arg' = NULL
  /\ pc' = "idle"
  /\ UNCHANGED <<config, plan, held, frame, velVars>>

Next ==
  \/ CallProcess
  \/ ProcessCheckArgs
  \/ ProcessMalloc
  \/ FlowRateCheckArgs
  \/ FlowRateMalloc
  \/ FlowRateLoop
  \/ FlowRateFinish
  \/ ProcessFailed
  \/ ProcessReturn
  \/ Receive
  \/ CallResultFree
  \/ ResultFree

Spec == Init /\ [][Next]_vars

(***************************************************************************)
(* One call over the numeric inputs.                                       *)
(***************************************************************************)
InitCalc ==
  /\ InitProc
  /\ InitVelIdle
  /\ config \in Configs(Diameters, PathSet)
  /\ \E m \in MeasArgs(config, MeasSet) : plan = <<m>>

SpecCalc == InitCalc /\ [][Next]_vars

(***************************************************************************)
(* One call by a caller whose arrays need not hold num_paths elements.     *)
(***************************************************************************)
RawPaths == { AcousticPath(Lit(3, 2), Two, Lit(5, 4)), AcousticPath(Zero, One, Half) }
RawMeas == { PathMeasurement(Two, One), PathMeasurement(Zero, One) }

RawConfigs ==
  UNION {{Ref(FlowMeterConfig(Two, n, Ref(ps))) : ps \in SeqsOf(RawPaths, len)}
         : n \in 0..MaxPaths, len \in 0..MaxPaths}

InitRaw ==
  /\ InitProc
  /\ InitVelIdle
  /\ config \in RawConfigs
  /\ \E len \in 0..MaxPaths : \E ms \in SeqsOf(RawMeas, len) : plan = <<Ref(ms)>>

SpecRaw == InitRaw /\ [][Next]_vars

(***************************************************************************)
(* Two calls on one configuration with measurements whose velocities are   *)
(* multiples of each other.                                                *)
(***************************************************************************)
\* length / (2 sin(angle)) = 2, weight 7/8
LinPaths == { AcousticPath(Lit(3, 2), Lit(4, 1), Lit(7, 8)) }
\* delta_t / (t_up * t_down) = 1/2, 1, 3/2: velocities 1, 2, 3
LinMeas ==
  { PathMeasurement(Two, One), PathMeasurement(One, Half), PathMeasurement(Two, Half) }

InitLin ==
  /\ InitProc
  /\ InitVelIdle
  /\ \E n \in 1..MaxPaths : \E ps \in SeqsOf(LinPaths, n) :
       config = Ref(FlowMeterConfig(Two, n, Ref(ps)))
  /\ \E m1 \in SeqsOf(LinMeas, NumPathsOf(config)),
        m2 \in SeqsOf(LinMeas, NumPathsOf(config)) :
       plan = <<Ref(m1), Ref(m2)>>

SpecLin == InitLin /\ [][Next]_vars

(***************************************************************************)
(* calculate_path_velocity alone, and again with the transit times swapped.*)
(***************************************************************************)
VelTimes ==
  { Lit(-1, 1), Fin(1, 0), Zero, Eighth, One, Two, DblMax, Inf(0), Inf(1), NaN }
VelLengths == { Zero, One, Two, DblMax }
VelAngles == { Zero, Fin(1, 0), Eighth, Half, Lit(3, 2), Lit(-3, 2), Lit(3, 1) }

InitVel ==
  /\ heap = [a \in Addrs |-> FreeBlock]
  /\ held = {}
  /\ free_arg = NULL
  /\ NoFrame
  /\ config = NullRef
  /\ plan = << >>
  /\ pc = "velocity"
  /\ arg_path \in {NullRef} \cup
       {Ref(AcousticPath(a, l, One)) : a \in VelAngles, l \in VelLengths}
  /\ arg_meas \in {NullRef} \cup
       {Ref(PathMeasurement(u, d)) : u \in VelTimes, d \in VelTimes}
  /\ velocity = Uninit
  /\ velocity_swapped = Uninit

Swapped(m) ==
  IF m.null THEN m
  ELSE Ref(PathMeasurement(m.at.t_downstream, m.at.t_upstream))

VelocityCall ==
  /\ pc = "velocity"
  /\ velocity' = calculate_path_velocity(arg_path, arg_meas)
  /\ pc' = "velocity_done"
  /\ UNCHANGED <<procVars, arg_path, arg_meas, velocity_swapped>>

VelocityCallSwapped ==
  /\ pc = "velocity_done"
  /\ velocity_swapped' = calculate_path_velocity(arg_path, Swapped(arg_meas))
  /\ pc' = "swapped_done"
  /\ UNCHANGED <<procVars, arg_path, arg_meas, velocity>>

NextVel == VelocityCall \/ VelocityCallSwapped

SpecVel == InitVel /\ [][NextVel]_vars

(***************************************************************************)
(* Properties.                                                             *)
(***************************************************************************)
InUse == {a \in Addrs : heap[a].kind # "free"}
Blocks(r) == {r.ptr, heap[r.ptr].path_velocities}
HeldBlocks == UNION {Blocks(r) : r \in held}
Vels(p) == heap[heap[p].path_velocities].data
FlowOf(p) == heap[p].volumetric_flow
FLt(x, y) == FLe(x, y) /\ ~FEq(x, y)
Succeeded == pc = "returned" /\ ret # NULL

\* C1: flowmeter_process returns NULL whenever the configuration is absent,
\* the measurements are absent, num_paths is 0 or paths is absent, whatever
\* the other inputs are.
C1_AbsentInputsGiveNull ==
  pc = "returned" =>
    ((config.null \/ measurements.null \/ config.at.num_paths = 0
        \/ config.at.paths.null) => ret = NULL)

\* A call with num_paths = 0 got as far as calculate_flow_rate and failed.
C1_Witness ==
  /\ pc = "returned" /\ ret = NULL /\ result # NULL
  /\ ~config.null /\ ~measurements.null
  /\ config.at.num_paths = 0 /\ ~config.at.paths.null

\* C2: when flowmeter_process returns NULL, every block allocated during the
\* call has been freed again; on the error path of calculate_flow_rate the
\* result holds no velocity storage, so freeing the aggregate is enough.
C2_NoLeakOnFailure ==
  /\ pc = "process_failed" =>
       /\ heap[result].path_velocities \notin Addrs
       /\ allocated = {result}
  /\ (pc = "returned" /\ ret = NULL) =>
       /\ \A a \in allocated : heap[a].kind = "free"
       /\ InUse = HeldBlocks

\* A failing call that had allocated the aggregate, while a result is owned.
C2_Witness ==
  pc = "returned" /\ ret = NULL /\ allocated # {} /\ held # {}

\* C4: flowmeter_result_free frees the velocity storage and the aggregate of
\* its argument and nothing else, and changes nothing when given NULL; so
\* the blocks in use between calls are exactly those of the results not yet
\* released, and none is in use once every result has been released.
C4_ReleaseFreesExactly ==
  /\ [](pc = "idle" => InUse = HeldBlocks)
  /\ [][pc = "result_free" =>
          heap' = [a \in Addrs |->
                     IF free_arg # NULL /\ a \in {free_arg, heap[free_arg].path_velocities}
                     THEN FreeBlock ELSE heap[a]]]_vars
  /\ [](pc = "result_free" /\ free_arg # NULL =>
          /\ heap[free_arg].kind = "FlowResult"
          /\ heap[free_arg].path_velocities \in Addrs
          /\ heap[heap[free_arg].path_velocities].kind = "doubles")

\* One of two owned results is being released.
C4_Witness ==
  pc = "result_free" /\ free_arg # NULL /\ held # {}

\* The storage of a result is fresh and disjoint from that of every other
\* owned result, and equal inputs give equal results.
C10_Disjoint ==
  /\ \A r \in held :
       /\ heap[r.ptr].kind = "FlowResult"
       /\ heap[r.ptr].path_velocities \in Addrs
       /\ heap[heap[r.ptr].path_velocities].kind = "doubles"
  /\ \A r1 \in held, r2 \in held : r1 # r2 => Blocks(r1) \cap Blocks(r2) = {}
  /\ allocated \cap HeldBlocks = {}
  /\ pc \in {"flow_rate_loop", "process_return"} =>
       /\ heap[result].kind = "FlowResult"
       /\ heap[result].path_velocities \in Addrs \ {result}
       /\ heap[heap[result].path_velocities].kind = "doubles"
  /\ \A r1 \in held, r2 \in held :
       r1.meas = r2.meas =>
         Vels(r1.ptr) = Vels(r2.ptr) /\ FlowOf(r1.ptr) = FlowOf(r2.ptr)

\* A step leaves the contents of the results that stay owned alone, and never
\* modifies the configuration or, during a call, the measurements.
C10_Preserved ==
  /\ \A r \in held \cap held' :
       /\ heap'[r.ptr] = heap[r.ptr]
       /\ heap'[heap[r.ptr].path_velocities] = heap[heap[r.ptr].path_velocities]
  /\ config' = config
  /\ pc \notin {"idle", "returned"} => measurements' = measurements /\ plan' = plan

\* C10: no state is kept between calls: C10_Disjoint holds in every state
\* and every step satisfies C10_Preserved.
C10_NoStateBetweenCalls == []C10_Disjoint /\ [][C10_Preserved]_vars

\* A second call has returned a result while the first is still owned.
C10_Witness ==
  Succeeded /\ held # {} /\ \E r \in held : r.meas # measurements

\* The inputs of the call that has returned.
CfgPaths == config.at.paths.at
Meas == measurements.at
NPaths == config.at.num_paths
ValidCall ==
  /\ ~config.null /\ ~measurements.null
  /\ config.at.num_paths > 0 /\ ~config.at.paths.null

\* C3 as stated: a paths sequence shorter than num_paths is signalled as a
\* failure and the loop never reads beyond the end of a supplied sequence.
C3_ShortPathsSignalled ==
  (ValidCall /\ Len(CfgPaths) < NPaths) =>
    /\ ~oob
    /\ pc # "trapped"
    /\ pc = "returned" => ret = NULL

\* C3 as amended: calculate_flow_rate does not detect a paths or measurements
\* sequence shorter than num_paths; its loop reads paths[i] and
\* measurements[i] at exactly the indices 0..num_paths-1, so every read is
\* inside the sequences when each holds at least num_paths elements and
\* some read is beyond the end otherwise; when no read traps and the
\* allocations succeed, the call returns a result.
C3_ReadsExactlyNumPaths ==
  ~measurements.null =>
    /\ reads \subseteq 0..(NPaths - 1)
    /\ pc \in {"flow_rate_loop"} => reads = 0..(i - 1)
    /\ pc \in {"process_return"} => reads = 0..(NPaths - 1)
    /\ (Len(CfgPaths) >= NPaths /\ Len(Meas) >= NPaths) => (~oob /\ pc # "trapped")
    /\ (pc = "process_return" /\ (Len(CfgPaths) < NPaths \/ Len(Meas) < NPaths)) => oob
    /\ (pc = "returned" /\ NPaths > 0 /\ Cardinality(allocated) = 2) => ret # NULL

\* A call with fewer paths than num_paths has returned a result.
C3_Witness ==
  Succeeded /\ oob /\ Len(CfgPaths) < NPaths

\* C5: calculate_path_velocity returns exactly 0.0 when a reference is
\* absent, when t_upstream <= 0, when t_downstream <= 0 or when
\* sin(angle) == 0, whatever the other inputs are.
C5_GuardsGiveZero ==
  pc \in {"velocity_done", "swapped_done"} =>
    ((\/ arg_path.null
      \/ arg_meas.null
      \/ FLe(arg_meas.at.t_upstream, Zero)
      \/ FLe(arg_meas.at.t_downstream, Zero)
      \/ FEq(Sin(arg_path.at.angle), Zero)) => velocity = Zero)

\* A zero upstream time with a positive downstream time and a valid angle.
C5_Witness ==
  /\ pc = "velocity_done"
  /\ ~arg_path.null /\ ~arg_meas.null
  /\ arg_meas.at.t_upstream = Zero
  /\ FLt(Zero, arg_meas.at.t_downstream)
  /\ ~FEq(Sin(arg_path.at.angle), Zero)
  /\ FLt(Zero, arg_path.at.length)

Degenerate(path, m) ==
  \/ FLe(m.t_upstream, Zero)
  \/ FLe(m.t_downstream, Zero)
  \/ FEq(Sin(path.angle), Zero)

AreaOf(d) == FMul(FMul(M_PI, FDiv(d, Two)), FDiv(d, Two))

\* weight_1 * v_1 + ... + weight_k * v_k, added in increasing index order.
RECURSIVE SumInOrder(_, _, _)
SumInOrder(paths, vels, k) ==
  IF k = 0 THEN Zero
  ELSE FAdd(SumInOrder(paths, vels, k - 1), FMul(paths[k].weight, vels[k]))

\* The same sum over the paths whose measurement is not degenerate.
RECURSIVE SumOverGood(_, _, _, _)
SumOverGood(paths, ms, vels, k) ==
  IF k = 0 THEN Zero
  ELSE IF Degenerate(paths[k], ms[k]) THEN SumOverGood(paths, ms, vels, k - 1)
  ELSE FAdd(SumOverGood(paths, ms, vels, k - 1), FMul(paths[k].weight, vels[k]))

\* C6: a degenerate measurement on a path does not make the call fail (only
\* a failed allocation does); that path's velocity is 0.0, every other
\* path's velocity is the formula's value for its own path and measurement,
\* and volumetric_flow is the area times the weighted sum over the other
\* paths.
C6_DegenerateAbsorbed ==
  (pc = "returned" /\ ValidCall
     /\ \E k \in 1..NPaths : Degenerate(CfgPaths[k], Meas[k])) =>
    /\ ret = NULL => Cardinality(allocated) < 2
    /\ ret # NULL =>
         /\ \A k \in 1..NPaths :
              Vels(ret)[k] =
                IF Degenerate(CfgPaths[k], Meas[k]) THEN Zero
                ELSE VelocityFormula(CfgPaths[k].length, Sin(CfgPaths[k].angle),
                                     Meas[k].t_upstream, Meas[k].t_downstream)
         /\ FlowOf(ret) =
              FMul(AreaOf(config.at.pipe_diameter),
                   SumOverGood(CfgPaths, Meas, Vels(ret), NPaths))

\* Two paths, the first with a zero transit time, the second with a flow.
C6_Witness ==
  /\ Succeeded /\ NPaths = 2
  /\ FLe(Meas[1].t_upstream, Zero)
  /\ ~FEq(Sin(CfgPaths[1].angle), Zero)
  /\ ~Degenerate(CfgPaths[2], Meas[2])
  /\ IsFin(Vels(ret)[2]) /\ ~IsZero(Vels(ret)[2])
  /\ IsFin(FlowOf(ret)) /\ ~IsZero(FlowOf(ret))

\* C7: a successful call leaves num_paths velocities, the i-th being
\* calculate_path_velocity(paths[i], measurements[i]), and volumetric_flow =
\* pi * (pipe_diameter/2)^2 * sum of weight_i * path_velocities[i] added in
\* increasing index order.
C7_ResultContents ==
  Succeeded =>
    /\ DOMAIN Vels(ret) = 1..NPaths
    /\ \A k \in 1..NPaths :
         Vels(ret)[k] = calculate_path_velocity(Ref(CfgPaths[k]), Ref(Meas[k]))
    /\ FlowOf(ret) =
         FMul(AreaOf(config.at.pipe_diameter), SumInOrder(CfgPaths, Vels(ret), NPaths))

\* Two paths with different non-zero velocities and a non-zero flow.
C7_Witness ==
  /\ Succeeded /\ NPaths = 2
  /\ IsFin(Vels(ret)[1]) /\ ~IsZero(Vels(ret)[1])
  /\ IsFin(Vels(ret)[2]) /\ ~IsZero(Vels(ret)[2])
  /\ Vels(ret)[1] # Vels(ret)[2]
  /\ CfgPaths[1] # CfgPaths[2]
  /\ IsFin(FlowOf(ret)) /\ ~IsZero(FlowOf(ret))

\* C8: with t_upstream > 0, t_downstream > 0 and sin(angle) != 0, swapping
\* the transit times negates the velocity, and equal transit times give a
\* velocity of exactly 0.0.
C8_Antisymmetric ==
  (/\ pc = "swapped_done"
   /\ ~arg_path.null /\ ~arg_meas.null
   /\ FLt(Zero, arg_meas.at.t_upstream)
   /\ FLt(Zero, arg_meas.at.t_downstream)
   /\ IsFin(arg_meas.at.t_upstream) /\ IsFin(arg_meas.at.t_downstream)
   /\ ~FEq(Sin(arg_path.at.angle), Zero)) =>
    /\ FEq(velocity, FNeg(velocity_swapped))
    /\ FEq(arg_meas.at.t_upstream, arg_meas.at.t_downstream) => FEq(velocity, Zero)

\* y = k * x, exactly.
ScaledBy(k, x, y) ==
  /\ IsFin(k) /\ IsFin(x) /\ IsFin(y)
  /\ SignedN(y) * Unit = SignedN(k) * SignedN(x)

AllScaledBy(k, p1, p2) ==
  \A j \in 1..NumPathsOf(config) : ScaledBy(k, Vels(p1)[j], Vels(p2)[j])

Factors == { Lit(-1, 1), Two, Lit(-2, 1), Half, Lit(3, 1), Lit(-3, 1), Lit(3, 2) }
PowersOfTwo == { Lit(-1, 1), Two, Lit(-2, 1), Half, Lit(-1, 2) }

\* C9 as stated: if every velocity of one result is k times the velocity of
\* another result of the same configuration, its volumetric_flow is exactly
\* k times the other's.
C9_ExactlyLinear ==
  \A r1 \in held, r2 \in held, k \in Factors :
    AllScaledBy(k, r1.ptr, r2.ptr) => ScaledBy(k, FlowOf(r1.ptr), FlowOf(r2.ptr))

\* The product a * b neither overflows nor underflows: it is finite and, unless
\* a factor is zero, larger in magnitude than the smallest normal number.
ProductInRange(a, b) ==
  /\ IsFin(FMul(a, b))
  /\ IsZero(a) \/ IsZero(b) \/ FMul(a, b).n > Pow2(PrecBits - 1)

NoUnderOverflow(p) ==
  LET ps == config.at.paths.at
      n == config.at.num_paths
  IN /\ \A j \in 1..n :
          /\ ProductInRange(ps[j].weight, Vels(p)[j])
          /\ IsFin(SumInOrder(ps, Vels(p), j))
     /\ ProductInRange(AreaOf(config.at.pipe_diameter), SumInOrder(ps, Vels(p), n))

\* C9 as amended: the volumetric_flow is multiplied by exactly k when k is
\* plus or minus a power of two and no product, partial sum or flow of
\* either computation overflows or underflows; for other k each operation
\* rounds and the flows need not be in the ratio k.
C9_LinearForPowersOfTwo ==
  \A r1 \in held, r2 \in held, k \in PowersOfTwo :
    (AllScaledBy(k, r1.ptr, r2.ptr)
       /\ NoUnderOverflow(r1.ptr) /\ NoUnderOverflow(r2.ptr)) =>
      ScaledBy(k, FlowOf(r1.ptr), FlowOf(r2.ptr))

\* Two owned results, the velocities of one twice those of the other.
C9_Witness ==
  \E r1 \in held, r2 \in held :
    /\ AllScaledBy(Two, r1.ptr, r2.ptr)
    /\ NoUnderOverflow(r1.ptr) /\ NoUnderOverflow(r2.ptr)
    /\ ~IsZero(FlowOf(r1.ptr))
    /\ \A j \in 1..NumPathsOf(config) : ~IsZero(Vels(r1.ptr)[j])
====
